---- MODULE Spec2Model ----
(***************************************************************************)
(* pybix/graph.py: class GraphImage.  A session-authenticated HTTP client  *)
(* that logs in to the Zabbix web front-end when it is constructed and     *)
(* then streams chart images to a file or to standard output.             *)
(*                                                                         *)
(* Representation.  A Python str is a finite sequence of text pieces; the  *)
(* empty sequence is the empty str, concatenation (f-strings) is \o.  The  *)
(* pieces are chosen so that an occurrence of "/api_jsonrpc.php" in the    *)
(* concatenated text always lies on piece boundaries (the text            *)
(* "/api_jsonrpc" and the text ".php" arise from their own pieces only),   *)
(* so endswith and replace on pieces are endswith and replace on text.     *)
(* A bytes object is a finite sequence of bytes.  An optional value is     *)
(* None or Some(v).                                                        *)
(***************************************************************************)
EXTENDS Integers, Sequences, FiniteSets, TLC

VARIABLES
    environ,        \* os.environ: ZABBIX_SERVER, ZABBIX_USER, ZABBIX_PASSWORD
    args,           \* the arguments GraphImage(...) is constructed with
    fs,             \* the file system: file name -> None | Some(bytes)
    pc,             \* position of the single (sequential) caller
    url,            \* __init__'s local url (the resolved URL)
    BASE_URL,       \* self.BASE_URL
    payload,        \* __init__'s local payload
    SESSION,        \* self.SESSION: None | Some(session object id)
    requests,       \* every HTTP request issued, in order
    postStatus,     \* what the login POST was answered with
    op,             \* the operation invoked last
    ioError,        \* what the I/O layer raised in the last operation
    outcome,        \* what the caller of the last operation observed
    call,           \* arguments of the current/last get_by_graph_id call
    f,              \* the file object of the with-statement at line 77
    handled,        \* chunks whose loop iteration has completed, in order
    file_writes,    \* arguments of f.write in this call, in order
    stdout_writes,  \* arguments of sys.stdout.buffer.write in this call
    fsBefore,       \* fs when the current/last get_by_graph_id call began
    getsBefore,     \* Len(requests) when that call began
    ncalls          \* number of get_by_graph_id calls begun

vars == << environ, args, fs, pc, url, BASE_URL, payload, SESSION, requests,
           postStatus, op, ioError, outcome, call, f, handled, file_writes,
           stdout_writes, fsBefore, getsBefore, ncalls >>

----------------------------------------------------------------------------
(* Bounds of the model. *)

MaxUrlLen == 3     \* pieces in a base_url argument
MaxChunks == 2     \* chunks one streaming response delivers
MaxCalls == 1      \* get_by_graph_id calls in one run

----------------------------------------------------------------------------
(* Python values. *)

None == << >>
Some(v) == << v >>
Value(o) == o[1]

\* Python truthiness of an optional str: None and "" are both falsy.
Truthy(o) == o # None /\ Value(o) # << >>

\* a or b, on optional strs
PyOr(a, b) == IF Truthy(a) THEN a ELSE b

\* bool(chunk) of a bytes object
IsTruthy(chunk) == Len(chunk) > 0

RECURSIVE Concat(_)
Concat(ss) == IF ss = << >> THEN << >> ELSE Head(ss) \o Concat(Tail(ss))

SeqsUpTo(S, n) == UNION { [1..k -> S] : k \in 0..n }

\* str.endswith
EndsWith(s, suffix) ==
    /\ Len(s) >= Len(suffix)
    /\ SubSeq(s, Len(s) - Len(suffix) + 1, Len(s)) = suffix

StartsWith(s, prefix) ==
    /\ Len(s) >= Len(prefix)
    /\ SubSeq(s, 1, Len(prefix)) = prefix

\* str.replace(old, new): every non-overlapping occurrence, left to right
RECURSIVE Replace(_, _, _)
Replace(s, old, new) ==
    IF s = << >> THEN << >>
    ELSE IF StartsWith(s, old)
         THEN new \o Replace(SubSeq(s, Len(old) + 1, Len(s)), old, new)
         ELSE << Head(s) >> \o Replace(Tail(s), old, new)

----------------------------------------------------------------------------
(* Literals of the source. *)

ApiSuffix == << "/api_jsonrpc", ".php" >>
DefaultUrl == << "http://localhost/zabbix" >>
DefaultUser == << "Admin" >>
DefaultPassword == << "zabbix" >>
SignIn == << "Sign in" >>

----------------------------------------------------------------------------
(* __init__ *)

\* variant: only None counts as "not given" (x if x is not None else ...)
ResolveStrict(arg, envval, default) ==
    Value(IF arg # None THEN arg ELSE IF envval # None THEN envval ELSE Some(default))
\* x or os.environ.get(NAME) or default
Resolve(arg, envval, default) ==
    Value(PyOr(PyOr(arg, envval), Some(default)))

\* variant: the condition not inverted, a trailing suffix cut off
NormalizeStripSuffix(u) ==
    IF EndsWith(u, ApiSuffix) THEN SubSeq(u, 1, Len(u) - Len(ApiSuffix)) ELSE u
\* url.replace("/api_jsonrpc.php", "") if not url.endswith('/api_jsonrpc.php') else url
Normalize(u) ==
    IF ~EndsWith(u, ApiSuffix) THEN Replace(u, ApiSuffix, << >>) ELSE u

Payload(username, password, env) ==
    [ name     |-> Resolve(username, env.ZABBIX_USER, DefaultUser),
      password |-> Resolve(password, env.ZABBIX_PASSWORD, DefaultPassword),
      enter    |-> SignIn ]

LoginUrl(base) == base \o << "/index.php" >>

Request(method, session, u, data, stream) ==
    [ method |-> method, session |-> session, url |-> u, data |-> data,
      stream |-> stream ]

\* variant: construction without the login request
LoginSkipped(reqs, session, base, data) == reqs
\* self.SESSION.post(f"{self.BASE_URL}/index.php", data=payload)
Login(reqs, session, base, data) ==
    Append(reqs, Request("POST", session, LoginUrl(base), Some(data), FALSE))

\* What the server, or the transport, does with the login POST.
Statuses == { 200, 401, 500 }
PostAnswers == { [ status |-> s, error |-> "none" ] : s \in Statuses }
                  \cup { [ status |-> 0, error |-> "ConnectionError" ] }

\* variant: response.raise_for_status() after the POST
RaiseForStatus(answer) ==
    IF answer.error # "none" THEN answer.error
    ELSE IF answer.status >= 400 THEN "HTTPError" ELSE "returned"
\* The response of the POST is discarded: only a transport failure raises.
InitOutcome(answer) ==
    IF answer.error # "none" THEN answer.error ELSE "returned"

NoCall == [ graph_id |-> << >>, from_date |-> << >>, to_date |-> << >>,
            width |-> << >>, height |-> << >>, save |-> FALSE,
            output_path |-> None ]
NoFile == [ name |-> None, closed |-> TRUE ]

GraphImage ==
    /\ pc = "start"
    /\ \E answer \in PostAnswers :
         /\ url' = Resolve(args.base_url, environ.ZABBIX_SERVER, DefaultUrl)
         /\ BASE_URL' = Normalize(url')
         /\ payload' = Payload(args.username, args.password, environ)
         /\ SESSION' = Some(1)
         /\ requests' = Login(requests, SESSION', BASE_URL', payload')
         /\ postStatus' = answer.status
         /\ ioError' = answer.error
         /\ outcome' = InitOutcome(answer)
         /\ pc' = IF outcome' = "returned" THEN "idle" ELSE "failed"
    /\ op' = "__init__"
    /\ UNCHANGED << environ, args, fs, call, f, handled, file_writes,
                    stdout_writes, fsBefore, getsBefore, ncalls >>

----------------------------------------------------------------------------
(* The inputs. *)

Pieces == { "http://h", "/api_jsonrpc", ".php", "/x" }
Urls == SeqsUpTo(Pieces, MaxUrlLen)
EnvUrls == { << >>, << "http://e", "/api_jsonrpc", ".php" >> }
Opt(S) == { None } \cup { Some(s) : s \in S }

GraphIds == { << "42" >>, << "7" >> }
Cwd == << "/cwd" >>
Dirs == { << >>, << "/tmp/out" >> }

FileName(dir, graph_id) == dir \o << "/graph-" >> \o graph_id \o << ".png" >>
FileNames == { FileName(d, g) : d \in Dirs \cup { Cwd }, g \in GraphIds }

StartState ==
    /\ pc = "start"
    /\ url = << >>
    /\ BASE_URL = << >>
    /\ payload = [ name |-> << >>, password |-> << >>, enter |-> << >> ]
    /\ SESSION = None
    /\ requests = << >>
    /\ postStatus = 0
    /\ op = "none"
    /\ ioError = "none"
    /\ outcome = "none"
    /\ call = NoCall
    /\ f = NoFile
    /\ handled = << >>
    /\ file_writes = << >>
    /\ stdout_writes = << >>
    /\ fsBefore = fs
    /\ getsBefore = 0
    /\ ncalls = 0

----------------------------------------------------------------------------
(* get_by_graph_id *)

Chunks == { << >>, << "a" >>, << "b", "c" >> }

\* def _validate_times(self, from_date, to_date): pass
_validate_times(from_date, to_date) == TRUE

ChartUrl(base, c) ==
    base \o << "/chart2.php?graphid=" >> \o c.graph_id
         \o << "&from=" >> \o c.from_date \o << "&to=" >> \o c.to_date
         \o << "&profileIdx=web.graphs.filter&width=" >> \o c.width
         \o << "&height=" >> \o c.height

\* self.SESSION.get(f"{self.BASE_URL}/chart2.php?...", stream=True)
Get(reqs, session, base, c) ==
    Append(reqs, Request("GET", session, ChartUrl(base, c), None, TRUE))

\* variant: if save or output_path:
SaveWhenPathGiven(c) == c.save \/ c.output_path # None
\* if save:
Save(c) == c.save

\* output_path = output_path or os.getcwd()
OutputDir(output_path) == Value(PyOr(output_path, Some(Cwd)))

\* variant: open(name, 'ab')
OpenAppend(files, name) ==
    [ files EXCEPT ![name] = IF @ = None THEN Some(<< >>) ELSE @ ]
\* open(name, 'wb'): the file is created, or truncated if present
OpenWB(files, name) == [ files EXCEPT ![name] = Some(<< >>) ]

\* f.write(chunk)
Write(files, name, chunk) == [ files EXCEPT ![name] = Some(Value(@) \o chunk) ]

\* if chunk:  # filter out keep-alive new chunks
Keep(chunk) == IsTruthy(chunk)

\* variant: f = open(...) without with/close
LeaveOpen(file) == file
\* leaving the with-statement of line 77, normally or by an exception
ExitWith(file) == [ file EXCEPT !.closed = TRUE ]

\* variant: except Exception: pass
Swallow(error) == "returned"
\* no try/except anywhere: an exception reaches the caller as it was raised
Propagate(error) == error

\* The call begins, the (no-op) validator runs and the GET is issued; it is
\* answered with a streaming response, or the transport fails.
get_by_graph_id ==
    /\ pc = "idle"
    /\ ncalls < MaxCalls
    /\ \E graph_id \in GraphIds, save \in BOOLEAN, output_path \in Opt(Dirs) :
         /\ call' = [ graph_id |-> graph_id, from_date |-> << "now-1d" >>,
                      to_date |-> << "now" >>, width |-> << "1782" >>,
                      height |-> << "452" >>, save |-> save,
                      output_path |-> output_path ]
         /\ _validate_times(call'.from_date, call'.to_date)
    /\ requests' = Get(requests, SESSION, BASE_URL, call')
    /\ op' = "get_by_graph_id"
    /\ ncalls' = ncalls + 1
    /\ getsBefore' = Len(requests)
    /\ fsBefore' = fs
    /\ f' = NoFile
    /\ handled' = << >>
    /\ file_writes' = << >>
    /\ stdout_writes' = << >>
    /\ \/ /\ ioError' = "none"
          /\ outcome' = "running"
          /\ pc' = "with_image"
       \/ /\ ioError' = "ConnectionError"
          /\ outcome' = Propagate(ioError')
          /\ pc' = "idle"
    /\ UNCHANGED << environ, args, fs, url, BASE_URL, payload, SESSION,
                    postStatus >>

\* if save: ... open(...) as f  /  else: the loop over standard output
Sink ==
    /\ pc = "with_image"
    /\ IF Save(call)
       THEN LET name == FileName(OutputDir(call.output_path), call.graph_id)
            IN  \/ /\ fs' = OpenWB(fs, name)
                   /\ f' = [ name |-> Some(name), closed |-> FALSE ]
                   /\ pc' = "loop"
                   /\ UNCHANGED << ioError, outcome >>
                \/ /\ ioError' = "OSError"
                   /\ outcome' = Propagate(ioError')
                   /\ pc' = "idle"
                   /\ UNCHANGED << fs, f >>
       ELSE /\ pc' = "loop"
            /\ UNCHANGED << fs, f, ioError, outcome >>
    /\ UNCHANGED << environ, args, url, BASE_URL, payload, SESSION, requests,
                    postStatus, op, call, handled, file_writes, stdout_writes,
                    fsBefore, getsBefore, ncalls >>

\* One iteration of: for chunk in image.iter_content(chunk_size=8192):
\* a chunk arrives and is written unless it is empty.
Iterate ==
    /\ pc = "loop"
    /\ Len(handled) < MaxChunks
    /\ \E chunk \in Chunks :
         /\ handled' = Append(handled, chunk)
         /\ IF Keep(chunk)
            THEN IF Save(call)
                 THEN /\ fs' = Write(fs, Value(f.name), chunk)
                      /\ file_writes' = Append(file_writes, chunk)
                      /\ UNCHANGED stdout_writes
                 ELSE /\ stdout_writes' = Append(stdout_writes, chunk)
                      /\ UNCHANGED << fs, file_writes >>
            ELSE UNCHANGED << fs, file_writes, stdout_writes >>
    /\ UNCHANGED << environ, args, pc, url, BASE_URL, payload, SESSION,
                    requests, postStatus, op, ioError, outcome, call, f,
                    fsBefore, getsBefore, ncalls >>

\* The loop is left: the stream ended, or reading the next chunk raised, or
\* writing the chunk that arrived raised (nothing of that chunk is written).
Leave ==
    /\ pc = "loop"
    /\ \E error \in { "none", "ChunkedEncodingError", "OSError" } :
         /\ ioError' = error
         /\ outcome' = IF error = "none" THEN "returned" ELSE Propagate(error)
    /\ f' = IF Save(call) THEN ExitWith(f) ELSE f
    /\ pc' = "idle"
    /\ UNCHANGED << environ, args, fs, url, BASE_URL, payload, SESSION,
                    requests, postStatus, op, call, handled, file_writes,
                    stdout_writes, fsBefore, getsBefore, ncalls >>

----------------------------------------------------------------------------
(* get_by_itemids *)

\* variant: a partial implementation that returns when saving
ItemidsReturns(item_ids, type, save, output_path) ==
    IF save THEN "returned" ELSE "NotImplementedError: Not yet added"
\* raise NotImplementedError("Not yet added")
Itemids(item_ids, type, save, output_path) ==
    "NotImplementedError: Not yet added"

get_by_itemids ==
    /\ pc = "idle"
    /\ \E item_ids \in { << "1" >>, << "1", "2" >> }, save \in BOOLEAN :
         outcome' = Itemids(item_ids, 1, save, None)
    /\ op' = "get_by_itemids"
    /\ ioError' = "none"
    /\ UNCHANGED << environ, args, fs, pc, url, BASE_URL, payload, SESSION,
                    requests, postStatus, call, f, handled, file_writes,
                    stdout_writes, fsBefore, getsBefore, ncalls >>

----------------------------------------------------------------------------
(* The specifications. *)

\* Construction: every combination of arguments and environment variables.
InitNew ==
    /\ environ \in [ ZABBIX_SERVER : Opt(EnvUrls),
                     ZABBIX_USER : Opt({ << >>, << "eve" >> }),
                     ZABBIX_PASSWORD : Opt({ << >>, << "evepw" >> }) ]
    /\ args \in [ base_url : Opt(Urls),
                  username : Opt({ << >>, << "bob" >> }),
                  password : Opt({ << >>, << "secret" >> }) ]
    /\ fs = [ n \in FileNames |-> None ]
    /\ StartState

NextNew == GraphImage

SpecNew == InitNew /\ [][NextNew]_vars

\* Retrieval: one construction (the end-to-end scenario), every call.
Init ==
    /\ environ \in { [ ZABBIX_SERVER |-> None, ZABBIX_USER |-> None,
                       ZABBIX_PASSWORD |-> None ] }
    /\ args \in { [ base_url |-> Some(<< "https://zbx.example.com/zabbix" >>),
                    username |-> Some(<< "Admin" >>),
                    password |-> Some(<< "secret" >>) ] }
    /\ fs \in { [ n \in FileNames |-> None ],
                [ n \in FileNames |-> Some(<< "z" >>) ] }
    /\ StartState

Next == GraphImage \/ get_by_graph_id \/ Sink \/ Iterate \/ Leave \/ get_by_itemids

Spec == Init /\ [][Next]_vars

----------------------------------------------------------------------------
(* Properties. *)

NonEmpty(chunks) == SelectSeq(chunks, LAMBDA c : c # << >>)
Contains(s, part) ==
    \E i \in 1..Len(s) : StartsWith(SubSeq(s, i, Len(s)), part)
Finished == op = "get_by_graph_id" /\ pc = "idle"
Completed == Finished /\ outcome = "returned"
Constructed == op = "__init__"

\* C1 as stated: a completed save=True call leaves
\* {output_path}/graph-{graph_id}.png, with the working directory for
\* output_path exactly when output_path is not given (None), holding the
\* non-empty chunks in order, whatever it held before; no zero-length chunk
\* is written and nothing goes to standard output.
C1_FileAtGivenPath ==
    /\ \A i \in DOMAIN file_writes : Len(file_writes[i]) > 0
    /\ (Completed /\ call.save) =>
         LET dir == IF call.output_path = None THEN Cwd
                    ELSE Value(call.output_path)
         IN  /\ fs[FileName(dir, call.graph_id)] = Some(Concat(NonEmpty(handled)))
             /\ stdout_writes = << >>

\* C1 amended: as C1, with the working directory for output_path when
\* output_path is not given or is the empty string.
C1_FileHoldsChunks ==
    /\ \A i \in DOMAIN file_writes : Len(file_writes[i]) > 0
    /\ (Completed /\ call.save) =>
         LET dir == IF call.output_path = None \/ Value(call.output_path) = << >>
                    THEN Cwd ELSE Value(call.output_path)
         IN  /\ fs[FileName(dir, call.graph_id)] = Some(Concat(NonEmpty(handled)))
             /\ stdout_writes = << >>

C1_Witness ==
    /\ Completed /\ call.save /\ call.output_path = None
    /\ fsBefore[FileName(Cwd, call.graph_id)] = Some(<< "z" >>)
    /\ handled = << << >>, << "b", "c" >> >>

\* C2: a completed save=False call has written to standard output exactly
\* the non-empty chunks, in the order received and nothing else, and has
\* created or modified no file, also when output_path is given.
C2_StdoutHoldsChunks ==
    (Completed /\ ~call.save) =>
        /\ stdout_writes = NonEmpty(handled)
        /\ file_writes = << >>
        /\ fs = fsBefore

C2_Witness ==
    /\ Completed /\ ~call.save /\ call.output_path = Some(<< "/tmp/out" >>)
    /\ handled = << << "b", "c" >>, << "a" >> >>

\* C3: construction issues exactly one request, a POST to
\* {stored base URL}/index.php with name, password and enter = "Sign in",
\* and does not raise whatever status the server answers with.
C3_OnePost ==
    Constructed =>
        /\ Len(requests) = 1
        /\ requests[1].method = "POST"
        /\ requests[1].url = BASE_URL \o << "/index.php" >>
        /\ requests[1].data = Some([ name |-> payload.name,
                                     password |-> payload.password,
                                     enter |-> << "Sign in" >> ])
        /\ (postStatus # 0 => outcome = "returned" /\ pc = "idle")

C3_Witness == Constructed /\ postStatus = 500 /\ pc = "idle"

C6_NeverEndsWithApiSuffix ==
    Constructed => ~EndsWith(BASE_URL, << "/api_jsonrpc", ".php" >>)

\* C7: get_by_itemids fails with the same NotImplementedError for every
\* combination of arguments, before and after get_by_graph_id calls; it
\* never returns normally.
C7_NotImplemented ==
    op = "get_by_itemids" => outcome = "NotImplementedError: Not yet added"

C7_Witness == op = "get_by_itemids" /\ ncalls > 0 /\ pc = "idle"

\* C8: every GET to {base_url}/chart2.php comes after the login POST to
\* {base_url}/index.php made on the same session, also when the login was
\* answered with a failure status.
C8_LoginBeforeChart ==
    \A i \in DOMAIN requests :
        requests[i].method = "GET" =>
            /\ StartsWith(requests[i].url, BASE_URL \o << "/chart2.php?graphid=" >>)
            /\ i > 1
            /\ requests[1].method = "POST"
            /\ requests[1].url = BASE_URL \o << "/index.php" >>
            /\ requests[1].session # None
            /\ requests[i].session = requests[1].session

C8_Witness ==
    /\ postStatus = 401
    /\ \E i \in DOMAIN requests : requests[i].method = "GET"

\* C9: with save=True the file is opened only after the GET was issued and
\* right before the write loop, and is closed on every exit from the loop
\* (end of stream, a read that raises, a write that raises): no call
\* returns or raises with the file still open.
C9_FileScoped ==
    /\ ~f.closed =>
         /\ pc = "loop" /\ call.save /\ f.name # None
         /\ Len(requests) = getsBefore + 1
         /\ requests[Len(requests)].method = "GET"
    /\ pc = "with_image" => f.name = None
    /\ (pc = "loop" /\ call.save) => ~f.closed
    /\ pc = "idle" => f.closed

C9_Witness ==
    /\ Finished /\ call.save /\ f.name # None /\ f.closed
    /\ ioError = "ChunkedEncodingError" /\ Len(handled) = 1

====
